---- MODULE Spec2Model ----
(***************************************************************************)
(* Model of micro_http/src/response.rs: the HTTP/1.0 response serializer.  *)
(* Byte strings are sequences of ASCII codes.  Option<T> is a sequence of  *)
(* at most one T: None is <<>>, Some(x) is <<x>>.                          *)
(***************************************************************************)
EXTENDS Integers, Sequences, FiniteSets

\* ---------------------------------------------------------------- bounds
\* largest number of set_body calls made on one Response
MaxSetBody == 2
\* largest number of raw() calls between two set_body calls
MaxRaw == 2

\* ------------------------------------------------------- ascii constants
SP == 32
CR == 13
LF == 10

\* ------------------------------------------------------------ Option<T>
None == <<>>
Some(x) == <<x>>

\* ------------------------------------------------------------ StatusCode
StatusCode == {"OK", "BadRequest", "NotFound", "InternalServerError", "NotImplemented"}

StatusCodeRaw_swapped(c) ==
    CASE c = "OK" -> <<50, 48, 48>>
      [] c = "BadRequest" -> <<52, 48, 48>>
      [] c = "NotFound" -> <<52, 48, 48>>
      [] c = "InternalServerError" -> <<53, 48, 48>>
      [] c = "NotImplemented" -> <<53, 48, 49>>

\* StatusCode::raw
StatusCodeRaw(c) ==
    CASE c = "OK" -> <<50, 48, 48>>
      [] c = "BadRequest" -> <<52, 48, 48>>
      [] c = "NotFound" -> <<52, 48, 52>>
      [] c = "InternalServerError" -> <<53, 48, 48>>
      [] c = "NotImplemented" -> <<53, 48, 49>>

\* ---------------------------------------------------------------- Version
\* Version::Http10.raw(), b"HTTP/1.0"
VersionRaw(v) ==
    CASE v = "Http10" -> <<72, 84, 84, 80, 47, 49, 46, 48>>

\* ------------------------------------------------------------- StatusLine
StatusLineNew_alwaysOK(status_code) ==
    [http_version |-> "Http10", status_code |-> "OK"]

\* StatusLine::new
StatusLineNew(status_code) ==
    [http_version |-> "Http10", status_code |-> status_code]

\* StatusLine::raw
StatusLineRaw(sl) ==
    VersionRaw(sl.http_version) \o <<SP>> \o StatusCodeRaw(sl.status_code) \o <<SP, CR, LF>>

\* ------------------------------------------------------------------- Body
\* Body::new
BodyNew(bytes) == [body |-> bytes]
\* Body::len
BodyLen(b) == Len(b.body)
\* Body::raw
BodyRaw(b) == b.body

\* ---------------------------------------------------------------- Headers
\* Header::raw, the header's name on the wire
HeaderRaw(name) ==
    CASE name = "ContentLength" -> <<67, 111, 110, 116, 101, 110, 116, 45, 76, 101, 110, 103, 116, 104>>
      [] name = "ContentType" -> <<67, 111, 110, 116, 101, 110, 116, 45, 84, 121, 112, 101>>

\* MediaType::as_str
MediaTypeAsStr(m) ==
    CASE m = "PlainText" -> <<116, 101, 120, 116, 47, 112, 108, 97, 105, 110>>

\* Headers::default
HeadersDefault == <<>>

\* Headers::add: one more entry, never replacing an earlier one.  The
\* collection's output order is implementation-defined, so the entry lands
\* at any position pos.
HeadersAdd(h, name, value, pos) ==
    SubSeq(h, 1, pos - 1) \o <<[name |-> name, value |-> value]>> \o SubSeq(h, pos, Len(h))

RECURSIVE HeaderLines(_)
HeaderLines(h) ==
    IF h = <<>> THEN <<>>
    ELSE HeaderRaw(Head(h).name) \o <<58, SP>> \o Head(h).value \o <<CR, LF>>
         \o HeaderLines(Tail(h))

\* Headers::raw: the entry lines, then the blank line
HeadersRaw(h) == HeaderLines(h) \o <<CR, LF>>

\* ------------------------------------------------------------ to_string
\* usize::to_string, decimal digits without leading zeros
RECURSIVE ToString(_)
ToString(n) ==
    IF n < 10 THEN <<48 + n>>
    ELSE ToString(n \div 10) \o <<48 + (n % 10)>>

\* ----------------------------------------------------------------- inputs
TestBody == <<84, 104, 105, 115, 32, 105, 115, 32, 97, 32, 116, 101, 115, 116>>

\* the bodies a caller passes to set_body: empty, "Hi", "This is a test"
Bodies == {BodyNew(<<>>), BodyNew(<<72, 105>>), BodyNew(TestBody)}

\* what a caller turns its own copy of a body into
Rewritten(b) == BodyNew(BodyRaw(b) \o <<33>>)

\* ------------------------------------------------------------------ state
VARIABLES
    status_line,   \* Response.status_line
    headers,       \* Response.headers
    body,          \* Response.body : Option<Body>
    op,            \* the last operation called on the Response
    ret,           \* what that operation returned
    new_arg,       \* the status code passed to Response::new
    last_arg,      \* the body passed to the latest set_body : Option<Body>
    n_set_body,    \* number of set_body calls so far
    prev_raw,      \* output of the latest raw() since the latest set_body
    n_raw          \* number of raw() calls since the latest set_body

vars == <<status_line, headers, body, op, ret, new_arg, last_arg, n_set_body, prev_raw, n_raw>>
resp == <<status_line, headers, body>>

NoRet == [raw |-> <<>>, status |-> "-", body |-> None]

\* Response::new
ResponseNew(status_code) ==
    [status_line |-> StatusLineNew(status_code),
     headers |-> HeadersDefault,
     body |-> None]

Init ==
    \E c \in StatusCode :
        /\ new_arg = c
        /\ status_line = ResponseNew(c).status_line
        /\ headers = ResponseNew(c).headers
        /\ body = ResponseNew(c).body
        /\ op = "new"
        /\ ret = NoRet
        /\ last_arg = None
        /\ n_set_body = 0
        /\ prev_raw = None
        /\ n_raw = 0

SetBody_offByOne ==
    /\ n_set_body < MaxSetBody
    /\ \E b \in Bodies :
        \E i \in 1..(Len(headers) + 1), j \in 1..(Len(headers) + 2) :
            /\ headers' = HeadersAdd(
                              HeadersAdd(headers, "ContentLength", ToString(BodyLen(b) + 1), i),
                              "ContentType", MediaTypeAsStr("PlainText"), j)
            /\ body' = Some(b)
            /\ last_arg' = Some(b)
    /\ n_set_body' = n_set_body + 1
    /\ op' = "set_body"
    /\ ret' = NoRet
    /\ prev_raw' = None
    /\ n_raw' = 0
    /\ UNCHANGED <<status_line, new_arg>>

SetBody_guarded ==
    /\ n_set_body < MaxSetBody
    /\ \E b \in Bodies :
        \E i \in 1..(Len(headers) + 1), j \in 1..(Len(headers) + 2) :
            /\ headers' = IF body = None
                          THEN HeadersAdd(
                                  HeadersAdd(headers, "ContentLength", ToString(BodyLen(b)), i),
                                  "ContentType", MediaTypeAsStr("PlainText"), j)
                          ELSE headers
            /\ body' = Some(b)
            /\ last_arg' = Some(b)
    /\ n_set_body' = n_set_body + 1
    /\ op' = "set_body"
    /\ ret' = NoRet
    /\ prev_raw' = None
    /\ n_raw' = 0
    /\ UNCHANGED <<status_line, new_arg>>

\* Response::set_body
SetBody ==
    /\ n_set_body < MaxSetBody
    /\ \E b \in Bodies :
        \E i \in 1..(Len(headers) + 1), j \in 1..(Len(headers) + 2) :
            /\ headers' = HeadersAdd(
                              HeadersAdd(headers, "ContentLength", ToString(BodyLen(b)), i),
                              "ContentType", MediaTypeAsStr("PlainText"), j)
            /\ body' = Some(b)
            /\ last_arg' = Some(b)
    /\ n_set_body' = n_set_body + 1
    /\ op' = "set_body"
    /\ ret' = NoRet
    /\ prev_raw' = None
    /\ n_raw' = 0
    /\ UNCHANGED <<status_line, new_arg>>

ResponseBodyRaw_separator(bd) ==
    IF bd # None THEN BodyRaw(bd[1]) ELSE <<CR, LF>>

\* Response::body_raw
ResponseBodyRaw(bd) ==
    IF bd # None THEN BodyRaw(bd[1]) ELSE <<>>

ResponseRaw_bodyFirst(sl, h, bd) ==
    StatusLineRaw(sl) \o ResponseBodyRaw(bd) \o HeadersRaw(h)

\* Response::raw, the bytes it returns
ResponseRaw(sl, h, bd) ==
    StatusLineRaw(sl) \o HeadersRaw(h) \o ResponseBodyRaw(bd)

Raw_takesBody ==
    /\ n_raw < MaxRaw
    /\ op' = "raw"
    /\ n_raw' = n_raw + 1
    /\ ret' = [NoRet EXCEPT !.raw = ResponseRaw(status_line, headers, body)]
    /\ prev_raw' = Some(ResponseRaw(status_line, headers, body))
    /\ body' = None
    /\ UNCHANGED <<status_line, headers, new_arg, last_arg, n_set_body>>

\* a call of Response::raw
Raw ==
    /\ n_raw < MaxRaw
    /\ op' = "raw"
    /\ n_raw' = n_raw + 1
    /\ ret' = [NoRet EXCEPT !.raw = ResponseRaw(status_line, headers, body)]
    /\ prev_raw' = Some(ResponseRaw(status_line, headers, body))
    /\ UNCHANGED <<status_line, headers, body, new_arg, last_arg, n_set_body>>

\* a call of Response::status
Status ==
    /\ op' = "status"
    /\ ret' = [NoRet EXCEPT !.status = status_line.status_code]
    /\ UNCHANGED <<status_line, headers, body, new_arg, last_arg, n_set_body, prev_raw, n_raw>>

GetBody_take ==
    /\ op' = "body"
    /\ ret' = [NoRet EXCEPT !.body = body]
    /\ body' = None
    /\ UNCHANGED <<status_line, headers, new_arg, last_arg, n_set_body, prev_raw, n_raw>>

\* a call of Response::body: the caller gets a clone
GetBody ==
    /\ op' = "body"
    /\ ret' = [NoRet EXCEPT !.body = body]
    /\ UNCHANGED <<status_line, headers, body, new_arg, last_arg, n_set_body, prev_raw, n_raw>>

\* the caller changes the clone that body() returned
MutateCopy ==
    /\ op = "body"
    /\ ret.body # None
    /\ op' = "mutate_copy"
    /\ ret' = [ret EXCEPT !.body = Some(Rewritten(ret.body[1]))]
    /\ UNCHANGED <<status_line, headers, body, new_arg, last_arg, n_set_body, prev_raw, n_raw>>

Next ==
    \/ SetBody
    \/ Raw
    \/ Status
    \/ GetBody
    \/ MutateCopy

Spec == Init /\ [][Next]_vars

\* ------------------------------------------------- reading emitted bytes
CRLF == <<13, 10>>
ContentLengthName == <<67, 111, 110, 116, 101, 110, 116, 45, 76, 101, 110, 103, 116, 104>>
ContentTypeName == <<67, 111, 110, 116, 101, 110, 116, 45, 84, 121, 112, 101>>
TextPlain == <<116, 101, 120, 116, 47, 112, 108, 97, 105, 110>>
HttpVersionText == <<72, 84, 84, 80, 47, 49, 46, 48>>

\* sub occurs in s at position i
IsAt(s, sub, i) ==
    /\ i >= 1
    /\ i + Len(sub) - 1 <= Len(s)
    /\ SubSeq(s, i, i + Len(sub) - 1) = sub

Occurrences(s, sub) == {i \in 1..Len(s) : IsAt(s, sub, i)}

SetMin(S) == CHOOSE x \in S : \A y \in S : x <= y

\* position of the CR LF CR LF that ends the header block of an output
BlankLineAt(out) == SetMin(Occurrences(out, CRLF \o CRLF))

\* the header lines of an output, each with the CR LF that precedes it
EmittedHeaderBlock(out) ==
    LET s == BlankLineAt(out)
        f == SetMin(Occurrences(out, CRLF))
    IN SubSeq(out, f, s + 1)

\* the bytes of an output after the blank line
EmittedBody(out) == SubSeq(out, BlankLineAt(out) + 4, Len(out))

\* the values of the emitted header lines called name, one per line
EmittedValues(out, name) ==
    LET blk == EmittedHeaderBlock(out)
        pre == CRLF \o name \o <<58, 32>>
        ValueAt(i) ==
            LET from == i + Len(pre)
                to == SetMin({k \in from..Len(blk) : blk[k] = 13})
            IN SubSeq(blk, from, to - 1)
    IN [i \in Occurrences(blk, pre) |-> ValueAt(i)]

RECURSIVE ParseDecimal(_)
ParseDecimal(d) ==
    IF d = <<>> THEN 0
    ELSE 10 * ParseDecimal(SubSeq(d, 1, Len(d) - 1)) + (d[Len(d)] - 48)

\* the documented status code numbers
DocumentedCode(c) ==
    CASE c = "OK" -> 200
      [] c = "BadRequest" -> 400
      [] c = "NotFound" -> 404
      [] c = "InternalServerError" -> 500
      [] c = "NotImplemented" -> 501

\* three decimal digits of a number below 1000
ThreeDigits(n) == <<48 + (n \div 100), 48 + ((n \div 10) % 10), 48 + (n % 10)>>

ExpectedStatusLine(c) ==
    HttpVersionText \o <<32>> \o ThreeDigits(DocumentedCode(c)) \o <<32, 13, 10>>

EntryCount(h, name) == Cardinality({i \in DOMAIN h : h[i].name = name})
EntryCopies(h, e) == Cardinality({i \in DOMAIN h : h[i] = e})
Bump(cond) == IF cond THEN 1 ELSE 0

\* ----------------------------------------------------------------- claims

\* C1: with a body present the Headers hold exactly one Content-Length
\* entry, whose value is the decimal byte length of the stored body, and
\* exactly one Content-Type entry; with no body they hold neither.
C1_BodyHeaderInvariant ==
    IF body # None
    THEN /\ EntryCount(headers, "ContentLength") = 1
         /\ EntryCount(headers, "ContentType") = 1
         /\ \A i \in DOMAIN headers :
                headers[i].name = "ContentLength"
                    => ParseDecimal(headers[i].value) = Len(body[1].body)
    ELSE /\ EntryCount(headers, "ContentLength") = 0
         /\ EntryCount(headers, "ContentType") = 0

\* C2: what raw() returned is the status line's bytes, then the header
\* block with its blank line, then the stored body's bytes (nothing when
\* there is no body), with nothing in between.
C2_RawIsConcatenation ==
    op = "raw" =>
        LET out == ret.raw
            a == StatusLineRaw(status_line)
            h == HeadersRaw(headers)
            b == IF body = None THEN <<>> ELSE body[1].body
        IN /\ Len(out) = Len(a) + Len(h) + Len(b)
           /\ SubSeq(out, 1, Len(a)) = a
           /\ SubSeq(out, Len(a) + 1, Len(a) + Len(h)) = h
           /\ SubSeq(out, Len(a) + Len(h) + 1, Len(out)) = b

C2_Witness ==
    /\ op = "raw"
    /\ body = Some(BodyNew(TestBody))
    /\ Len(headers) = 2
    /\ Len(ret.raw) = 15 + 20 + 26 + 2 + 14

\* C3: the test response, status OK with set_body("This is a test") called
\* once, serialized.
TestCase ==
    /\ new_arg = "OK"
    /\ n_set_body = 1
    /\ last_arg = Some(BodyNew(TestBody))
    /\ op = "raw"

TestOutput(length_value) ==
    LET sl == <<72, 84, 84, 80, 47, 49, 46, 48, 32, 50, 48, 48, 32, 13, 10>>
        cl == ContentLengthName \o <<58, 32>> \o length_value \o CRLF
        ct == ContentTypeName \o <<58, 32>> \o TextPlain \o CRLF
    IN {sl \o cl \o ct \o CRLF \o TestBody, sl \o ct \o cl \o CRLF \o TestBody}

\* C3 as stated: the Content-Length line of the test response reads 15.
C3_Original == TestCase => ret.raw \in TestOutput(<<49, 53>>)

\* C3 amended: the Content-Length line of the test response reads 14, the
\* byte length of "This is a test"; the rest of the output is as stated.
C3_TestRaw == TestCase => ret.raw \in TestOutput(<<49, 52>>)

C3_Witness ==
    /\ TestCase
    /\ headers[1].name = "ContentType"
    /\ Len(EmittedBody(ret.raw)) = 14

\* C4: when a body is present, every Content-Length line that raw() emits
\* declares the number of body bytes emitted after the blank line.
C4_DeclaredLengthIsBodyLength ==
    (op = "raw" /\ body # None) =>
        LET cl == EmittedValues(ret.raw, ContentLengthName)
        IN /\ DOMAIN cl # {}
           /\ \A i \in DOMAIN cl : ParseDecimal(cl[i]) = Len(EmittedBody(ret.raw))

\* C5: a Response on which set_body was never called has empty Headers and
\* no Body, and raw() gives the status line, the blank line and nothing else.
C5_NoBodyRaw ==
    n_set_body = 0 =>
        /\ headers = <<>>
        /\ body = None
        /\ op = "raw" =>
            /\ ret.raw = ExpectedStatusLine(new_arg) \o CRLF
            /\ Occurrences(ret.raw, ContentLengthName) = {}
            /\ Occurrences(ret.raw, ContentTypeName) = {}
            /\ EmittedBody(ret.raw) = <<>>

C5_Witness ==
    /\ n_set_body = 0
    /\ op = "raw"
    /\ new_arg = "NotFound"
    /\ Len(ret.raw) = 17

\* C6: every status code's bytes are the three digits of its documented
\* number, and a status line is "HTTP/1.0", a space, those digits, a space,
\* CR, LF, whatever the status code.
C6_StatusLineBytes ==
    /\ \A c \in StatusCode :
        /\ Len(StatusCodeRaw(c)) = 3
        /\ ParseDecimal(StatusCodeRaw(c)) = DocumentedCode(c)
        /\ StatusLineRaw(StatusLineNew(c)) = ExpectedStatusLine(c)
    /\ status_line.http_version = "Http10"
    /\ op = "raw" =>
        SubSeq(ret.raw, 1, 15) = ExpectedStatusLine(status_line.status_code)
    /\ (op = "raw" /\ status_line.status_code = "OK") =>
        SubSeq(ret.raw, 1, 15) = <<72, 84, 84, 80, 47, 49, 46, 48, 32, 50, 48, 48, 32, 13, 10>>

C6_Witness ==
    /\ op = "raw"
    /\ status_line.status_code = "NotFound"
    /\ SubSeq(ret.raw, 10, 12) = <<52, 48, 52>>

\* C7: the status is the one given to Response::new: status() returns it,
\* the status line that raw() emits is its status line, and set_body leaves
\* the status line as it was.
C7_StatusFixed ==
    /\ [](/\ status_line.status_code = new_arg
          /\ op = "status" => ret.status = new_arg
          /\ op = "raw" => SubSeq(ret.raw, 1, 15) = ExpectedStatusLine(new_arg))
    /\ [][n_set_body' # n_set_body => status_line' = status_line]_vars

C7_Witness ==
    /\ op = "status"
    /\ n_set_body = 2
    /\ n_raw > 0
    /\ ret.status = "InternalServerError"

\* C8: body() returns None before any set_body and afterwards a copy of
\* the latest body set; calling body(), or changing the copy it returned,
\* leaves the stored body, the headers and the raw() output as they were.
C8_BodyIsCopy ==
    /\ [](/\ (op = "body" /\ n_set_body = 0) => ret.body = None
          /\ (op = "body" /\ n_set_body > 0) =>
                (ret.body # None /\ BodyRaw(ret.body[1]) = BodyRaw(last_arg[1])))
    /\ [][op' \in {"body", "mutate_copy"} =>
            /\ UNCHANGED <<status_line, headers, body>>
            /\ ResponseRaw(status_line, headers, body)'
                   = ResponseRaw(status_line, headers, body)]_vars

C8_Witness ==
    /\ op = "mutate_copy"
    /\ body = Some(BodyNew(TestBody))
    /\ ret.body = Some(BodyNew(TestBody \o <<33>>))

\* C9: raw() changes nothing of the Response, and a raw() call returns the
\* same bytes as the previous raw() call when no set_body came in between.
C9_RawRepeatable ==
    [][op' = "raw" =>
        /\ UNCHANGED <<status_line, headers, body>>
        /\ prev_raw # None => ret'.raw = prev_raw[1]]_vars

C9_Witness ==
    /\ op = "raw"
    /\ n_raw = 2
    /\ n_set_body > 0
    /\ ret.raw = prev_raw[1]

\* C10: every set_body call adds one Content-Length entry with the decimal
\* byte length of its argument and one Content-Type entry "text/plain",
\* removes nothing and stores its argument, so after k calls there are k
\* entries of each name and the stored body is the k-th argument.
C10_SetBodyAppends ==
    /\ [](/\ EntryCount(headers, "ContentLength") = n_set_body
          /\ EntryCount(headers, "ContentType") = n_set_body
          /\ Len(headers) = 2 * n_set_body
          /\ body = last_arg)
    /\ [][n_set_body' # n_set_body =>
            LET cl == [name |-> "ContentLength",
                       value |-> ToString(Len(last_arg'[1].body))]
                ct == [name |-> "ContentType", value |-> TextPlain]
            IN \A e \in {headers'[i] : i \in DOMAIN headers'} \cup {cl, ct} :
                EntryCopies(headers', e)
                    = EntryCopies(headers, e) + Bump(e = cl) + Bump(e = ct)]_vars

C10_Witness ==
    /\ n_set_body = 2
    /\ body = Some(BodyNew(TestBody))
    /\ \E i, j \in DOMAIN headers :
        /\ headers[i].name = "ContentLength"
        /\ headers[j].name = "ContentLength"
        /\ headers[i].value = <<50>>
        /\ headers[j].value = <<49, 52>>
====
